---- MODULE Spec2Model ----
(***************************************************************************)
(* A model of the circular replay buffer (buffer.py) and of the DQN agent  *)
(* operations (model.py).                                                  *)
(*                                                                         *)
(* Arrays are records [shape, data]: shape <<>> is a scalar, shape <<n>>   *)
(* a vector of n elements; data is the flat sequence of elements.  The     *)
(* storage's five arrays are functions from the row index 0..N-1 to the    *)
(* flat data of the row.  A random key is replaced by the values drawn     *)
(* from it, which the actions choose nondeterministically.                 *)
(***************************************************************************)
EXTENDS Integers, Sequences, FiniteSets

VARIABLES buffer,   \* the current ReplayBufferStorage
          added,    \* history: the transitions stored by add_transition, in order
          op,       \* the last buffer operation: "init", "add" or "sample"
          arg,      \* <<transition>> given to the last add_transition, else <<>>
          sampled,  \* <<[index, transition]>> of the last sample_transition, else <<>>
          err,      \* TRUE when the last operation raised instead of returning
          ts,       \* the DQNTrainState
          call      \* the last agent call: its name, inputs and result

vars == <<buffer, added, op, arg, sampled, err, ts, call>>

bufferVars == <<buffer, added, op, arg, sampled, err>>
agentVars == <<ts, call>>

----------------------------------------------------------------------------
(* Bounds *)

MaxCap == 4        \* capacities 1..MaxCap
ExtraAdds == 2     \* a buffer of capacity N receives at most N + ExtraAdds adds
StateLen == 2      \* state_shape = (StateLen,)
MaxQ == 1          \* Q-values 0..MaxQ
MaxSteps == 2      \* at most MaxSteps gradient steps
FixedOne == 100    \* gamma, epsilon and uniform draws are multiples of 1/FixedOne

Min(a, b) == IF a <= b THEN a ELSE b

----------------------------------------------------------------------------
(* Arrays *)

Arr(shape, data) == [shape |-> shape, data |-> data]
Scalar(x) == Arr(<<>>, <<x>>)
Vector(xs) == Arr(<<Len(xs)>>, xs)
Fill(n, x) == [i \in 1..n |-> x]

\* numpy broadcasting of a value to a row of shape <<n>>: a scalar or a
\* one-element vector fills the row, a vector of n elements is taken as is;
\* anything else is a shape error.
Broadcastable(a, n) ==
    \/ a.shape = <<>>
    \/ a.shape = <<1>>
    \/ a.shape = <<n>>

Broadcast(a, n) ==
    IF a.shape = <<n>> THEN a.data ELSE Fill(n, a.data[1])

----------------------------------------------------------------------------
(* Transitions *)

Transition(state, action, reward, done, next_state) ==
    [state |-> state, action |-> action, reward |-> reward, done |-> done,
     next_state |-> next_state]

\* The state vector of shape (StateLen,) that starts with s.
Vec(s) == Vector([i \in 1..StateLen |-> s + i - 1])

\* The inputs: the transitions of a small chain environment, in the shapes
\* the storage expects (state_shape for the states, (1,) for the rest).
\* From state s, action a moves to s + a with reward a; state 3 is terminal.
EnvStates == {1, 2}
EnvActions == {0, 1}
EnvStep(s, a) ==
    Transition(Vec(s), Vector(<<a>>), Vector(<<a>>), Vector(<<s + a = 3>>), Vec(s + a))
Transitions == {EnvStep(s, a) : s \in EnvStates, a \in EnvActions}

----------------------------------------------------------------------------
(* buffer.py *)

Rows(array) == DOMAIN array
RowLen(array) == Len(array[0])

init_buffer(buffer_size, state_len) ==
    [states      |-> [i \in 0..buffer_size - 1 |-> Fill(state_len, 0)],
     actions     |-> [i \in 0..buffer_size - 1 |-> <<0>>],
     rewards     |-> [i \in 0..buffer_size - 1 |-> <<0>>],
     dones       |-> [i \in 0..buffer_size - 1 |-> <<FALSE>>],
     next_states |-> [i \in 0..buffer_size - 1 |-> Fill(state_len, 0)],
     cursor      |-> 0,
     full        |-> FALSE]

\* A write that lands one row after the cursor.
AtSetNextRow(array, cursor, value) ==
    [array EXCEPT ![(cursor + 1) % Cardinality(DOMAIN array)] =
                     Broadcast(value, RowLen(array))]

\* array.at[cursor].set(value)
AtSet(array, cursor, value) ==
    [array EXCEPT ![cursor] = Broadcast(value, RowLen(array))]

\* .at[cursor].set(value) raises when value does not broadcast to the row
AtSetRaises(array, value) == ~Broadcastable(value, RowLen(array))

add_transition_raises(b, transition) ==
    \/ AtSetRaises(b.states, transition.state)
    \/ AtSetRaises(b.actions, transition.action)
    \/ AtSetRaises(b.rewards, transition.reward)
    \/ AtSetRaises(b.dones, transition.done)
    \/ AtSetRaises(b.next_states, transition.next_state)

NewCursor(cursor, max_buffer_size) == (cursor + 1) % max_buffer_size

\* A flag that only tells whether the cursor is at 0.
NewFullAtZeroOnly(new_cursor, full) == new_cursor = 0

NewFull(new_cursor, full) == IF new_cursor = 0 THEN TRUE ELSE full

add_transition(b, transition) ==
    LET cursor == b.cursor
        max_buffer_size == Cardinality(Rows(b.rewards))
        new_cursor == NewCursor(cursor, max_buffer_size)
    IN  [states      |-> AtSet(b.states, cursor, transition.state),
         actions     |-> AtSet(b.actions, cursor, transition.action),
         rewards     |-> AtSet(b.rewards, cursor, transition.reward),
         dones       |-> AtSet(b.dones, cursor, transition.done),
         next_states |-> AtSet(b.next_states, cursor, transition.next_state),
         cursor      |-> new_cursor,
         full        |-> NewFull(new_cursor, b.full)]

\* An index draw over the whole capacity, full or not.
SampleMaxCapacity(b) == Cardinality(Rows(b.rewards))

\* maxval of the index draw
SampleMax(b) ==
    IF b.full = TRUE THEN Cardinality(Rows(b.rewards)) ELSE b.cursor

\* The values jax.random.randint(minval=0, maxval) can return.  With an empty
\* range (a buffer nothing was added to) the result is unspecified: any row.
SampleRange(b) ==
    IF SampleMax(b) > 0 THEN 0..(SampleMax(b) - 1) ELSE Rows(b.rewards)

\* A sample whose next_state is read from the row before the one drawn.
sample_transition_mixed(i, b) ==
    Transition(Vector(b.states[i]), Vector(b.actions[i]), Vector(b.rewards[i]),
               Vector(b.dones[i]),
               Vector(b.next_states[(i + Cardinality(Rows(b.rewards)) - 1)
                                       % Cardinality(Rows(b.rewards))]))

\* The tuple sample_transition returns when the index drawn is i.
sample_transition(i, b) ==
    Transition(Vector(b.states[i]), Vector(b.actions[i]), Vector(b.rewards[i]),
               Vector(b.dones[i]), Vector(b.next_states[i]))

----------------------------------------------------------------------------
(* model.py *)

n_actions == 2
Actions == 0..(n_actions - 1)

\* The states the Q-function is applied to, and the Q-functions: a parameter
\* set is the table of the Q-values it yields, state by state.
QStates == {1, 2}
QVals == 0..MaxQ
QTables == [QStates -> [Actions -> QVals]]

\* dqn.apply(params, state): the vector of Q-values, one per action
Apply(params, state) == params[state]

\* jnp.max(q, axis=-1)
MaxOf(q) == CHOOSE v \in {q[a] : a \in DOMAIN q} : \A a \in DOMAIN q : q[a] <= v

\* jnp.min(q, axis=-1)
MinOf(q) == CHOOSE v \in {q[a] : a \in DOMAIN q} : \A a \in DOMAIN q : v <= q[a]

\* jnp.argmax(q): the first index of the maximum
ArgMax(q) ==
    CHOOSE a \in DOMAIN q :
       /\ q[a] = MaxOf(q)
       /\ \A a2 \in DOMAIN q : a2 < a => q[a2] < q[a]

\* A factor that does not look at done.
MaskAlwaysOne(done) == 1

\* (1.0 - done)
Mask(done) == IF done THEN 0 ELSE 1

\* Values are fixed-point numbers: gamma is gamma/FixedOne, and a TD target
\* and a Q-value entering the loss are in units of 1/FixedOne, so that a loss
\* is in units of 1/FixedOne^2.
TDTarget(reward, gamma, done, next_value) ==
    FixedOne * reward + gamma * Mask(done) * next_value

SquaredError(q_value, target_q_value) ==
    (FixedOne * q_value - target_q_value) * (FixedOne * q_value - target_q_value)

\* A target that bootstraps from the smallest next value.
compute_loss_min(params, target_params, transition, gamma) ==
    LET q_values == Apply(params, transition.state)
        q_value == q_values[transition.action]
        next_q_values == Apply(target_params, transition.next_state)
        target_q_value == TDTarget(transition.reward, gamma, transition.done,
                                   MinOf(next_q_values))
    IN  SquaredError(q_value, target_q_value)

compute_loss(params, target_params, transition, gamma) ==
    LET q_values == Apply(params, transition.state)
        q_value == q_values[transition.action]
        next_q_values == Apply(target_params, transition.next_state)
        target_q_value == TDTarget(transition.reward, gamma, transition.done,
                                   MaxOf(next_q_values))
    IN  SquaredError(q_value, target_q_value)

\* A double-DQN loss whose next action is chosen by the target parameters.
compute_loss_double_dqn_target_selects(params, target_params, transition, gamma) ==
    LET q_values == Apply(params, transition.state)
        q_value == q_values[transition.action]
        next_q_values == Apply(target_params, transition.next_state)
        next_actions == ArgMax(next_q_values)
        target_q_values == Apply(target_params, transition.next_state)
        target_q_value == TDTarget(transition.reward, gamma, transition.done,
                                   target_q_values[next_actions])
    IN  SquaredError(q_value, target_q_value)

compute_loss_double_dqn(params, target_params, transition, gamma) ==
    LET q_values == Apply(params, transition.state)
        q_value == q_values[transition.action]
        next_q_values == Apply(params, transition.next_state)
        next_actions == ArgMax(next_q_values)
        target_q_values == Apply(target_params, transition.next_state)
        target_q_value == TDTarget(transition.reward, gamma, transition.done,
                                   target_q_values[next_actions])
    IN  SquaredError(q_value, target_q_value)

\* A copy in the wrong direction.
update_target_reversed(state) == [state EXCEPT !.params = state.target_params]

update_target(state) == [state EXCEPT !.target_params = state.params]

\* An exploration test that also explores when u = epsilon.
select_action_inclusive(params, state, epsilon, random_action, u) ==
    LET q_values == Apply(params, state)
        max_action == ArgMax(q_values)
        condition == u <= epsilon
    IN  IF condition THEN random_action ELSE max_action

\* random_action is the value of jax.random.choice, u that of
\* jax.random.uniform (in units of 1/FixedOne), drawn from the two subkeys.
select_action(params, state, epsilon, random_action, u) ==
    LET q_values == Apply(params, state)
        max_action == ArgMax(q_values)
        condition == u < epsilon
    IN  IF condition THEN random_action ELSE max_action

\* DQNTrainState: step, params, opt_state (the optimizer's update count) and
\* target_params; apply_fn and tx are fixed functions.
TrainState(step, params, opt_state, target_params) ==
    [step |-> step, params |-> params, opt_state |-> opt_state,
     target_params |-> target_params]

\* params and target_params are initialised from two separate draws
initialize_agent_state(p, p2) == TrainState(0, p, 0, p2)

\* TrainState.apply_gradients, with the parameters the optimizer arrives at
apply_gradients(state, new_params) ==
    TrainState(state.step + 1, new_params, state.opt_state + 1, state.target_params)

----------------------------------------------------------------------------
(* The agent's state and last call, idle while the buffer is exercised *)

NoTrainState == TrainState(0, <<>>, 0, <<>>)
NoCall == [fn |-> "none"]

----------------------------------------------------------------------------
(* The replay buffer used as the training loop uses it *)

Capacity == Cardinality(Rows(buffer.rewards))

InitBuffer ==
    /\ \E n \in 1..MaxCap : buffer = init_buffer(n, StateLen)
    /\ added = <<>>
    /\ op = "init"
    /\ arg = <<>>
    /\ sampled = <<>>
    /\ err = FALSE

Init ==
    /\ InitBuffer
    /\ ts = NoTrainState
    /\ call = NoCall

AddWith(transition) ==
    /\ Len(added) < Capacity + ExtraAdds
    /\ op' = "add"
    /\ arg' = <<transition>>
    /\ sampled' = <<>>
    /\ IF add_transition_raises(buffer, transition)
       THEN /\ err' = TRUE
            /\ UNCHANGED <<buffer, added>>
       ELSE /\ err' = FALSE
            /\ buffer' = add_transition(buffer, transition)
            /\ added' = Append(added, transition)
    /\ UNCHANGED agentVars

Add == \E transition \in Transitions : AddWith(transition)

Sample ==
    /\ \E i \in SampleRange(buffer) :
          sampled' = <<[index |-> i, transition |-> sample_transition(i, buffer)]>>
    /\ op' = "sample"
    /\ arg' = <<>>
    /\ err' = FALSE
    /\ UNCHANGED <<buffer, added>>
    /\ UNCHANGED agentVars

Next == Add \/ Sample

Spec == Init /\ [][Next]_vars

----------------------------------------------------------------------------
(* Properties of the replay buffer *)

NumAdded == Len(added)

\* The number of the latest add that wrote row i, 0 when none did: add
\* number j writes row (j - 1) mod Capacity.
LastWrite(i) ==
    LET js == {j \in 1..NumAdded : (j - 1) % Capacity = i}
    IN  IF js = {} THEN 0 ELSE CHOOSE j \in js : \A j2 \in js : j2 <= j

\* The adds whose transitions are retained: the last min(k, N).
Retained == (NumAdded - Min(NumAdded, Capacity) + 1)..NumAdded

RowOf(b, i) ==
    [state |-> b.states[i], action |-> b.actions[i], reward |-> b.rewards[i],
     done |-> b.dones[i], next_state |-> b.next_states[i]]

DataOf(transition) ==
    [state |-> transition.state.data, action |-> transition.action.data,
     reward |-> transition.reward.data, done |-> transition.done.data,
     next_state |-> transition.next_state.data]

ZeroRow ==
    [state |-> Fill(StateLen, 0), action |-> <<0>>, reward |-> <<0>>,
     done |-> <<FALSE>>, next_state |-> Fill(StateLen, 0)]

\* C1: after k adds to a fresh buffer of capacity N, cursor = k mod N, so
\* 0 <= cursor < N, and full is true exactly when k >= N; k only grows, so
\* full is never set back to false.
C1_CursorAndFull ==
    /\ buffer.cursor = NumAdded % Capacity
    /\ 0 <= buffer.cursor /\ buffer.cursor < Capacity
    /\ buffer.full = (NumAdded >= Capacity)
    /\ (NumAdded = Capacity => buffer.full /\ buffer.cursor = 0)

\* Exactly N adds happened, and one more after the wrap.
C1_Witness ==
    /\ Capacity = MaxCap
    /\ NumAdded = Capacity + 1
    /\ buffer.full
    /\ buffer.cursor = 1

\* C2: row i of the five arrays holds the fields of the latest transition
\* added at a position congruent to i modulo N, or the initial zero row when
\* there is none; the rows written are those of the last min(k, N) adds, and
\* the add just made wrote the row its cursor pointed at.
C2_RowsHoldLatest ==
    /\ \A i \in Rows(buffer.rewards) :
          RowOf(buffer, i) =
             IF LastWrite(i) = 0 THEN ZeroRow ELSE DataOf(added[LastWrite(i)])
    /\ {LastWrite(i) : i \in Rows(buffer.rewards)} \ {0} = Retained
    /\ (op = "add" =>
          RowOf(buffer, (NumAdded - 1) % Capacity) = DataOf(arg[1]))

\* The (N+1)-th add replaced the content of row 0 by a different transition
\* while row 1 still holds the second one.
C2_Witness ==
    /\ Capacity = MaxCap
    /\ Capacity >= 2
    /\ NumAdded = Capacity + 1
    /\ op = "add"
    /\ added[1] # added[NumAdded]
    /\ RowOf(buffer, 0) = DataOf(added[NumAdded])
    /\ RowOf(buffer, 1) = DataOf(added[2])

\* C3: after at least one add the indices sample_transition can draw are
\* exactly 0..cursor-1 before the first wrap and exactly 0..N-1 once full
\* (the row at cursor included), that is the rows written so far, and the
\* index of a sample made is one of them.
C3_SampleIndices ==
    NumAdded >= 1 =>
       /\ SampleRange(buffer) =
             IF buffer.full THEN 0..(Capacity - 1) ELSE 0..(buffer.cursor - 1)
       /\ SampleRange(buffer) = 0..(Min(NumAdded, Capacity) - 1)
       /\ (~buffer.full => \A i \in SampleRange(buffer) : i < buffer.cursor)
       /\ (buffer.full => buffer.cursor \in SampleRange(buffer))
       /\ (op = "sample" => sampled[1].index \in SampleRange(buffer))

\* A sample before the first wrap, with unwritten rows left.
C3_Witness ==
    /\ op = "sample"
    /\ Capacity = MaxCap
    /\ NumAdded = Capacity - 1
    /\ NumAdded >= 1
    /\ ~buffer.full
    /\ sampled[1].index = buffer.cursor - 1

\* C4: after k >= 1 adds, the tuple sample_transition returns is, as a
\* whole, one of the last min(k, N) transitions added: never an overwritten
\* one, never an unwritten zero row, never a mixture of two adds.
C4_SampledIsRetained ==
    (op = "sample" /\ NumAdded >= 1) =>
       \E j \in Retained : sampled[1].transition = added[j]

\* After N + 1 adds the sample reads row 0, which holds the newest
\* transition and no longer the first one.
C4_Witness ==
    /\ op = "sample"
    /\ Capacity = MaxCap
    /\ NumAdded = Capacity + 1
    /\ sampled[1].index = 0
    /\ sampled[1].transition = added[NumAdded]
    /\ sampled[1].transition # added[1]
    /\ \A j \in Retained : added[j] # added[1]

----------------------------------------------------------------------------
(* add_transition given transitions of the wrong shape *)

\* The first transition of the environment with its state (or next_state)
\* replaced by an array of another shape.
BaseTransition == EnvStep(1, 1)
Misshaped ==
    {[BaseTransition EXCEPT !.state = Scalar(7)],
     [BaseTransition EXCEPT !.state = Vector(<<7>>)],
     [BaseTransition EXCEPT !.next_state = Vector(<<7>>)],
     [BaseTransition EXCEPT !.state = Vector(Fill(StateLen + 1, 7))]}

ShapesMatch(b, transition) ==
    /\ transition.state.shape = <<RowLen(b.states)>>
    /\ transition.next_state.shape = <<RowLen(b.next_states)>>

AddMisshaped == \E transition \in Misshaped : AddWith(transition)

NextShape == Add \/ AddMisshaped

SpecShape == Init /\ [][NextShape]_vars

\* C10: add_transition given a state or next_state whose shape is not the
\* storage's state shape ends in an error.
C10_FailsFast ==
    (op = "add" /\ ~ShapesMatch(buffer, arg[1])) => err

----------------------------------------------------------------------------
(* The losses *)

Rewards == {0, 1}
Gammas == {FixedOne \div 2, FixedOne}
LossTransitions ==
    [state : QStates, action : Actions, reward : Rewards, done : BOOLEAN,
     next_state : QStates]
LossFns == {"compute_loss", "compute_loss_double_dqn"}

IdleBuffer ==
    /\ buffer = init_buffer(1, StateLen)
    /\ added = <<>>
    /\ op = "init"
    /\ arg = <<>>
    /\ sampled = <<>>
    /\ err = FALSE

InitAgent ==
    /\ IdleBuffer
    /\ \E p \in QTables, p2 \in QTables : ts = initialize_agent_state(p, p2)
    /\ call = NoCall

LossCall(fn, transition, gamma, loss) ==
    [fn |-> fn, params |-> ts.params, target_params |-> ts.target_params,
     transition |-> transition, gamma |-> gamma, loss |-> loss]

ComputeLoss ==
    /\ call = NoCall
    /\ \E transition \in LossTransitions, gamma \in Gammas :
          call' = LossCall("compute_loss", transition, gamma,
                           compute_loss(ts.params, ts.target_params, transition, gamma))
    /\ UNCHANGED <<ts, bufferVars>>

ComputeLossDoubleDqn ==
    /\ call = NoCall
    /\ \E transition \in LossTransitions, gamma \in Gammas :
          call' = LossCall("compute_loss_double_dqn", transition, gamma,
                           compute_loss_double_dqn(ts.params, ts.target_params,
                                                   transition, gamma))
    /\ UNCHANGED <<ts, bufferVars>>

NextLoss == ComputeLoss \/ ComputeLossDoubleDqn

SpecLoss == InitAgent /\ [][NextLoss]_vars

IsLossCall == call.fn \in LossFns

\* C5: with done = true either loss is (Q(state; params)[action] - reward)^2,
\* an expression that reads neither next_state nor target_params.
C5_TerminalMasking ==
    (IsLossCall /\ call.transition.done) =>
       call.loss =
          SquaredError(call.params[call.transition.state][call.transition.action],
                       FixedOne * call.transition.reward)

\* A terminal transition whose next state has a positive target value, for
\* each of the two losses.
C5_Witness ==
    /\ IsLossCall
    /\ call.fn = "compute_loss_double_dqn"
    /\ call.transition.done
    /\ call.gamma > 0
    /\ \A a \in Actions : call.target_params[call.transition.next_state][a] > 0
    /\ call.params # call.target_params

\* C6: the double-DQN loss is the squared difference between
\* Q(state; params)[action] and reward + gamma (1 - done) Q(next_state;
\* target_params)[a*], with a* the maximising action of Q(next_state; params).
C6_DoubleDqnTarget ==
    call.fn = "compute_loss_double_dqn" =>
       LET t == call.transition
           current == call.params[t.next_state]
           astar == CHOOSE a \in Actions :
                       /\ \A a2 \in Actions : current[a2] <= current[a]
                       /\ \A a2 \in Actions : a2 < a => current[a2] < current[a]
           target == FixedOne * t.reward
                     + (IF t.done THEN 0
                        ELSE call.gamma * call.target_params[t.next_state][astar])
       IN  call.loss = SquaredError(call.params[t.state][t.action], target)

\* The two tables disagree on the maximising action of next_state and the
\* loss is not the one the target table's own maximum would give.
C6_Witness ==
    /\ call.fn = "compute_loss_double_dqn"
    /\ ~call.transition.done
    /\ ArgMax(call.params[call.transition.next_state])
          # ArgMax(call.target_params[call.transition.next_state])
    /\ call.loss # compute_loss(call.params, call.target_params,
                                call.transition, call.gamma)

\* The loss the other variant returns on the inputs of the call.
OtherLoss ==
    IF call.fn = "compute_loss"
    THEN compute_loss_double_dqn(call.params, call.target_params,
                                 call.transition, call.gamma)
    ELSE compute_loss(call.params, call.target_params, call.transition, call.gamma)

\* C7: with params = target_params the two losses are equal, and whenever
\* they differ the two tables disagree on the maximising action of
\* next_state.
C7_VariantsAgree ==
    IsLossCall =>
       /\ (call.params = call.target_params => call.loss = OtherLoss)
       /\ (call.loss # OtherLoss =>
              ArgMax(call.params[call.transition.next_state])
                 # ArgMax(call.target_params[call.transition.next_state]))

\* Equal tables, a non-terminal transition and a bootstrap term that counts.
C7_Witness ==
    /\ call.fn = "compute_loss"
    /\ call.params = call.target_params
    /\ ~call.transition.done
    /\ MaxOf(call.target_params[call.transition.next_state])
          # MinOf(call.target_params[call.transition.next_state])
    /\ call.loss = OtherLoss
    /\ call.loss > 0

----------------------------------------------------------------------------
(* The target update *)

\* A training step of the loop: the optimizer moves the parameters.
TrainStep ==
    /\ ts.step < MaxSteps
    /\ \E new_params \in QTables \ {ts.params} :
          ts' = apply_gradients(ts, new_params)
    /\ call' = [fn |-> "apply_gradients"]
    /\ UNCHANGED bufferVars

\* consecutive counts the update_target calls since the parameters changed.
UpdateTarget ==
    /\ call.fn = "update_target" => call.consecutive < 2
    /\ ts' = update_target(ts)
    /\ call' = [fn |-> "update_target", input |-> ts, result |-> update_target(ts),
                consecutive |-> IF call.fn = "update_target"
                                THEN call.consecutive + 1 ELSE 1]
    /\ UNCHANGED bufferVars

NextTarget == TrainStep \/ UpdateTarget

SpecTarget == InitAgent /\ [][NextTarget]_vars

\* C8: update_target returns a state whose target_params is the input's
\* params and whose other fields are the input's; a second application with
\* no parameter change in between returns its input.
C8_UpdateTarget ==
    call.fn = "update_target" =>
       /\ call.result.target_params = call.input.params
       /\ call.result.params = call.input.params
       /\ call.result.opt_state = call.input.opt_state
       /\ call.result.step = call.input.step
       /\ (call.consecutive = 2 => call.result = call.input)

\* A second application in a row, after a training step had made the
\* parameters differ from the target.
C8_Witness ==
    /\ call.fn = "update_target"
    /\ call.consecutive = 2
    /\ ts.step = 1
    /\ ts.target_params = ts.params
    /\ ts.opt_state = 1

----------------------------------------------------------------------------
(* Action selection *)

Epsilons == {0, FixedOne \div 2, FixedOne}
Uniforms == {0, FixedOne \div 2, FixedOne - 1}

SelectAction ==
    /\ call = NoCall
    /\ \E state \in QStates, epsilon \in Epsilons, random_action \in Actions,
          u \in Uniforms :
          call' = [fn |-> "select_action", params |-> ts.params, state |-> state,
                   epsilon |-> epsilon, random_action |-> random_action, u |-> u,
                   action |-> select_action(ts.params, state, epsilon,
                                            random_action, u)]
    /\ UNCHANGED <<ts, bufferVars>>

NextSelect == SelectAction

SpecSelect == InitAgent /\ [][NextSelect]_vars

IsGreedy(q, a) ==
    /\ \A a2 \in DOMAIN q : q[a2] <= q[a]
    /\ \A a2 \in DOMAIN q : a2 < a => q[a2] < q[a]

\* C9: select_action returns the random candidate when u < epsilon and the
\* greedy action otherwise; so with epsilon = 0 it is always the greedy
\* action and with epsilon = 1 always the candidate.
C9_EpsilonGreedy ==
    call.fn = "select_action" =>
       LET q == call.params[call.state]
       IN  /\ (call.u < call.epsilon => call.action = call.random_action)
           /\ (~(call.u < call.epsilon) => IsGreedy(q, call.action))
           /\ (call.epsilon = 0 => IsGreedy(q, call.action))
           /\ (call.epsilon = FixedOne => call.action = call.random_action)

\* epsilon = 0 with the smallest uniform draw and a candidate that is not
\* the greedy action.
C9_Witness ==
    /\ call.fn = "select_action"
    /\ call.epsilon = 0
    /\ call.u = 0
    /\ ~IsGreedy(call.params[call.state], call.random_action)
    /\ IsGreedy(call.params[call.state], call.action)

====
